---- MODULE Spec2Model ----
(***************************************************************************)
(* Model of nuance/processing/llm.py (LLMService singleton, query_llm,     *)
(* strip_thinking) and nuance/processing/topic_tagger.py                   *)
(* (TopicTagger.process).                                                  *)
(*                                                                         *)
(* Strings that the code inspects character by character (LLM responses)   *)
(* are sequences of one-character strings.  Tasks of the asyncio event     *)
(* loop are the elements of Procs; an action is the code a task runs       *)
(* between two awaits.  The statements of get_instance's critical section  *)
(* are separate actions, so that other tasks may be scheduled while the    *)
(* lock is held (every await is treated as a point where the loop may      *)
(* switch tasks).                                                          *)
(***************************************************************************)
EXTENDS Integers, Sequences, FiniteSets, TLC

\* ------------------------------------------------------------------ bounds
NumDirect == 2      \* tasks that call LLMService.get_instance(...) directly
MaxTopics == 2      \* longest topic -> prompt mapping the store returns
MaxPieces == 5      \* pieces concatenated into an input of strip_thinking

\* ------------------------------------------------------------- characters
\* None, where an object reference or a task is expected (objects and tasks
\* are numbered from 1)
None == 0

Open  == <<"<", "t", "h", "i", "n", "k", ">">>
Close == <<"<", "/", "t", "h", "i", "n", "k", ">">>

\* A text is a sequence of characters. A character is written as the
\* one-character string that holds it; the lexer of this language reads no
\* character above U+00FF whose low byte is below 0x80, and such a character
\* is written as the name of its code point ("U+2000"), which is no
\* one-character string and so is no other character.

\* str.isspace() and ASCII: space, \n, \t, \r, form feed, then the vertical
\* tab U+000B and the separators U+001C, U+001D, U+001E and U+001F, each
\* written as the character itself
AsciiSpace == {" ", "\n", "\t", "\r", "\f", "", "", "", "", ""}

\* next line U+0085, no-break space U+00A0 and ogham space mark U+1680
NEL == ""
NBSP == " "
OghamSpace == " "

\* the spaces U+2000..U+200A, the line and paragraph separators U+2028 and
\* U+2029, and the spaces U+202F, U+205F and U+3000
WideSpace ==
    {"U+2000", "U+2001", "U+2002", "U+2003", "U+2004", "U+2005",
     "U+2006", "U+2007", "U+2008", "U+2009", "U+200A", "U+2028",
     "U+2029", "U+202F", "U+205F", "U+3000"}

\* the characters str.strip() removes: the 29 code points of Unicode for
\* which str.isspace() is true
Whitespace == AsciiSpace \cup {NEL, NBSP, OghamSpace} \cup WideSpace

UpperChars == <<"A", "B", "C", "D", "E", "F", "G", "H", "I", "J", "K", "L", "M",
                "N", "O", "P", "Q", "R", "S", "T", "U", "V", "W", "X", "Y", "Z">>
LowerChars == <<"a", "b", "c", "d", "e", "f", "g", "h", "i", "j", "k", "l", "m",
                "n", "o", "p", "q", "r", "s", "t", "u", "v", "w", "x", "y", "z">>

\* str.lower() on one character: the 26 letters of ASCII are folded. Python
\* folds the cased letters outside ASCII as well; none of them, and no
\* character of their images, is a letter of "true", so a text lower-cases
\* to "true" here exactly when it does in Python.
LowerChar(c) ==
    IF \E k \in 1..Len(UpperChars) : UpperChars[k] = c
    THEN LowerChars[CHOOSE k \in 1..Len(UpperChars) : UpperChars[k] = c]
    ELSE c

\* variant: the comparison forgets to lower-case
Lower_NoFold(s) == s

\* str.lower()
Lower(s) == [k \in 1..Len(s) |-> LowerChar(s[k])]

\* str.strip(): drop leading and trailing whitespace
Strip(s) ==
    LET keep == {k \in 1..Len(s) : s[k] \notin Whitespace}
    IN  IF keep = {} THEN <<>>
        ELSE LET lo == CHOOSE k \in keep : \A j \in keep : k <= j
                 hi == CHOOSE k \in keep : \A j \in keep : k >= j
             IN  SubSeq(s, lo, hi)

\* text[i:].startswith(pat), i counted from 1
StartsWithAt(text, i, pat) ==
    /\ i + Len(pat) - 1 <= Len(text)
    /\ \A k \in 1..Len(pat) : text[i + k - 1] = pat[k]

\* first position >= i where pat occurs in text, 0 when there is none
FindFrom(text, i, pat) ==
    LET js == {j \in i..Len(text) : StartsWithAt(text, j, pat)}
    IN  IF js = {} THEN 0 ELSE CHOOSE j \in js : \A k \in js : j <= k

\* re.sub(r"<think>.*?</think>", "", text, flags=re.DOTALL) scanning from i:
\* at each position the leftmost match is taken, its end being the first
\* "</think>" after the "<think>"; the scan resumes after the match.
RECURSIVE SubThink(_, _)
SubThink(text, i) ==
    IF i > Len(text) THEN <<>>
    ELSE IF /\ StartsWithAt(text, i, Open)
            /\ FindFrom(text, i + Len(Open), Close) # 0
         THEN SubThink(text, FindFrom(text, i + Len(Open), Close) + Len(Close))
         ELSE <<text[i]>> \o SubThink(text, i + 1)

strip_thinking(text) == Strip(SubThink(text, 1))

\* llm_response.strip().lower() == "true"
IsTrueLiteral(llm_response) ==
    Lower(Strip(llm_response)) = <<"t", "r", "u", "e">>

\* is_relevant of one raw LLM answer (topic_tagger.py lines 48-51)
is_relevant(raw) == IsTrueLiteral(strip_thinking(raw))

\* ------------------------------------------------------------------ state
VARIABLES
    st_text,        \* strip_thinking: the input text
    st_once,        \* strip_thinking(text)
    st_twice,       \* strip_thinking(strip_thinking(text))
    st_pc,          \* "in", "once", "twice"
    instance,       \* LLMService._instance: None or the index of an object in objs
    objs,           \* the LLMService objects created so far: their model_name
    lockHolder,     \* the task inside "async with cls._lock", or None
    waiters,        \* tasks suspended in cls._lock.acquire(), in arrival order
    initCount,      \* how many times the body of _initialize has run
    kind,           \* per task: "tagger" (runs process) or "direct" (calls get_instance)
    arg,            \* per task: the model_name argument it passes to get_instance
    pc,             \* per task: where it is suspended
    mine,           \* get_instance: the local variable instance
    got,            \* the value the task's last get_instance call returned
    waited,         \* whether the task's current get_instance call was suspended on the lock
    post,           \* process: the Post object input_data
    entry,          \* the Post as it was when process was called
    store,          \* what constitution_store.get_topic_prompts() answers to the task
    llm,            \* the texts the remote endpoint may answer in this run
    topic_prompts,  \* process: the fetched mapping, a sequence of (topic, template)
    idx,            \* process: position of the loop in topic_prompts.items()
    identified,     \* process: identified_topics
    verdicts,       \* the is_relevant value of each completed iteration
    rawResp,        \* the last answer query_llm returned to the task
    quoted,         \* what _twitter_discovery.get_post answered to the task
    results,        \* the ProcessingResults process returned to the task's caller
    llmCalls,       \* number of query_llm calls the task issued
    lookups,        \* number of get_post calls the task issued
    httpCalls,      \* number of async_http_request_with_retry calls the task issued
    usedModel,      \* the model of the task's last LLMService.query
    failedAt,       \* the step of process whose call raised, "-" when none did
    cancelledAt,    \* where the task was suspended when it was cancelled, "-" when it was not
    asked,          \* the topics of the query_llm calls the task issued, in order
    raised          \* the exception the failing step raised, NoExc when none did

stv == <<st_text, st_once, st_twice, st_pc>>

\* ------------------------------------------- inputs of strip_thinking
Pieces == {Open, Close, <<"<", "t", "h", "i">>, <<"n", "k", ">">>, <<"b">>, <<" ">>, <<"\f">>}

RECURSIVE Concat(_)
Concat(ps) == IF ps = <<>> THEN <<>> ELSE Head(ps) \o Concat(Tail(ps))

PieceSeqs == UNION {[1..n -> Pieces] : n \in 0..MaxPieces}

Texts == {Concat(ps) : ps \in PieceSeqs}

StripInit ==
    /\ st_text \in Texts
    /\ st_once = <<>>
    /\ st_twice = <<>>
    /\ st_pc = "in"

\* first application of strip_thinking (llm.py lines 137-141)
StripOnce ==
    /\ st_pc = "in"
    /\ st_once' = strip_thinking(st_text)
    /\ st_pc' = "once"
    /\ UNCHANGED <<st_text, st_twice>>

\* strip_thinking applied to its own result
StripTwice ==
    /\ st_pc = "once"
    /\ st_twice' = strip_thinking(st_once)
    /\ st_pc' = "twice"
    /\ UNCHANGED <<st_text, st_once>>

\* ------------------------------------------------------------ main model
shared == <<instance, objs, lockHolder, waiters, initCount>>
inputs == <<kind, arg, entry, store, llm>>
giv    == <<mine, got, waited>>
tagv   == <<post, topic_prompts, idx, identified, verdicts, rawResp, quoted,
            results, llmCalls, asked, lookups, httpCalls, usedModel>>
hist   == <<failedAt, raised, cancelledAt>>
vars   == <<stv, shared, inputs, pc, giv, tagv, hist>>

Taggers == {1}
Directs == 2..(1 + NumDirect)
Procs   == Taggers \cup Directs

Absent == "absent"      \* a key a dict does not hold, an attribute an object lacks
Unset  == "unset"       \* self.model_name before _initialize has assigned it
NoArg  == "noarg"       \* get_instance() called without model_name
BadArgs == "badargs"    \* arguments that _initialize's signature does not accept

DefaultModel == "Qwen/Qwen3-8B"
Sentinel == "nuance_sharing"
NUANCE_SOCIAL_ACCOUNT_ID == "nuance_account"

\* --------------------------------------------------------------- inputs
Args == {NoArg, "m1", BadArgs}

TopicNames == {"A", "B", Sentinel}
GoodTemplate == "about A? {tweet_text}"
BadTemplate  == "about A? {tweet_text} {other}"
Templates == {GoodTemplate, BadTemplate}

\* mappings with unique keys, as the ordered item list of the dict
Mappings ==
    {m \in UNION {[1..n -> [topic : TopicNames, template : Templates]] : n \in 0..MaxTopics} :
        \A i, j \in 1..Len(m) : m[i].topic = m[j].topic => i = j}

Exc(c, m) == [cls |-> c, msg |-> m]
NoExc == Exc("", "")
\* failures of the collaborators: all derive from Exception
Failures == {Exc("RuntimeError", "boom"), Exc("TimeoutError", "")}
FormatError   == Exc("KeyError", "'other'")
BodyError     == Exc("KeyError", "'choices'")
AttrError     == Exc("AttributeError", "no attribute")
TypeErrorExc  == Exc("TypeError", "unexpected arguments")
ExceptionClasses == {"RuntimeError", "TimeoutError", "KeyError", "AttributeError", "TypeError"}

StoreAnswers ==
    {[raises |-> TRUE, exc |-> e, mapping |-> <<>>] : e \in Failures}
    \cup {[raises |-> FALSE, exc |-> NoExc, mapping |-> m] : m \in Mappings}

Posts ==
    [platform_type : {"TWITTER", "OTHER"},
     extra_data : [is_quote_tweet : {Absent, "False", "True"},
                   quoted_status_id : {Absent, "", "q1"}],
     topics : {<<>>, <<"old">>}]
DefaultPost ==
    [platform_type |-> "OTHER",
     extra_data |-> [is_quote_tweet |-> Absent, quoted_status_id |-> Absent],
     topics |-> <<>>]

R_true  == <<"t", "r", "u", "e">>
R_True  == <<" ", "T", "r", "u", "e", "\n">>
R_TRUE  == <<"T", "R", "U", "E">>
R_false == <<"f", "a", "l", "s", "e">>
R_maybe == <<"m", "a", "y", "b", "e">>
R_empty == <<>>
R_truedot == <<"t", "r", "u", "e", ".">>
R_ff_true == <<"\f", "t", "r", "u", "e", "\f">>
R_nbsp_true == <<NBSP>> \o <<"t", "r", "u", "e">> \o <<NEL>>
R_ogham_true == Open \o <<"x">> \o Close \o <<OghamSpace, "T", "R", "U", "E", NBSP>>
R_split == <<"t", "r", NBSP, "u", "e">>
R_vt_true == <<"", "t", "r", "u", "e", "">>
R_sep_true == Open \o <<"x">> \o Close \o <<"", "", "T", "r", "u", "e", "">>
R_think_true == Open \o <<"n", "o">> \o Close \o <<"\n">> \o R_TRUE
R_think_false == Open \o R_true \o Close \o R_false
R_unclosed == Open \o R_true
Responses == {R_true, R_True, R_TRUE, R_false, R_maybe, R_empty, R_truedot, R_ff_true,
              R_vt_true, R_sep_true, R_nbsp_true, R_ogham_true, R_split,
              R_think_true, R_think_false, R_unclosed}

\* async_http_request_with_retry ends in a terminal failure, or returns a body
\* without choices[0].message.content, or a body whose content is in answers
HttpOutcomes(answers) ==
    {[raises |-> TRUE, exc |-> e, content |-> <<>>] : e \in Failures \cup {BodyError}}
    \cup {[raises |-> FALSE, exc |-> NoExc, content |-> r] : r \in answers}

WalletOutcomes == {[raises |-> TRUE, exc |-> e] : e \in Failures}
                  \cup {[raises |-> FALSE, exc |-> NoExc]}

DiscAnswers ==
    {[raises |-> TRUE, exc |-> e, account_id |-> Absent] : e \in Failures}
    \cup {[raises |-> FALSE, exc |-> NoExc, account_id |-> a] :
            a \in {NUANCE_SOCIAL_ACCOUNT_ID, "other_account", Absent}}
NoAnswer == [raises |-> FALSE, exc |-> NoExc, account_id |-> "not asked"]

\* ------------------------------------------------- LLMService (llm.py)
\* variant: no mutual exclusion, every caller enters at once
LockFree_Always(holder, ws) == TRUE

\* asyncio.Lock.acquire takes the lock at once iff it is not held and no
\* task is queued for it
LockFree(holder, ws) == holder = None /\ ws = <<>>

\* variant: the test is dropped and every call constructs
InstanceIsNone_Always(inst) == TRUE

\* "if cls._instance is None"
InstanceIsNone(inst) == inst = None

\* variant: the new object is published before _initialize has run
InstanceAfterNew_Early(inst, newObj) == newObj

\* cls._instance after "instance = super().__new__(cls)": only the local
\* variable is assigned
InstanceAfterNew(inst, newObj) == inst

\* _initialize: model_name or "Qwen/Qwen3-8B"
ModelNameOf(a) == IF a = NoArg THEN DefaultModel ELSE a

\* variant: the handler names only the lookup errors of dict and attribute access
IsException_Narrow(cls) == cls \in {"KeyError", "AttributeError"}

\* "except Exception": CancelledError is a BaseException and is not caught
IsException(cls) == cls \in ExceptionClasses

\* ------------------------------------------- TopicTagger.process helpers
\* variant: the items are visited from the last to the first
ItemAt_Reversed(m, i) == m[Len(m) + 1 - i]

\* the i-th (topic, template) pair of topic_prompts.items()
ItemAt(m, i) == m[i]

\* topic_ptompt.format(tweet_text=content) raises on any other placeholder
FormatRaises(template) == template = BadTemplate

\* variant: the topic is inserted at the front
AppendTopic_Front(ident, topic) == <<topic>> \o ident

\* identified_topics.append(topic)
AppendTopic(ident, topic) == Append(ident, topic)

\* variant: the reason is str(e) alone
Reason_Bare(e) == <<e.msg>>

\* reason=f"Error tagging topics: {str(e)}", as its two parts
Reason(e) == <<"Error tagging topics: ", e.msg>>

\* post.extra_data.get("is_quote_tweet", False) is truthy
IsQuoteTweet(extra) == extra.is_quote_tweet = "True"

\* variant: the id is only compared with None, so an empty id passes
HasQuotedId_NotNone(extra) == extra.quoted_status_id # Absent

\* post.extra_data.get("quoted_status_id") is truthy
HasQuotedId(extra) == extra.quoted_status_id \notin {Absent, ""}

\* the conditions under which line 70 is reached
NeedsLookup(po) ==
    /\ po.platform_type = "TWITTER"
    /\ IsQuoteTweet(po.extra_data)
    /\ HasQuotedId(po.extra_data)

\* variant: the nuance_sharing step has no handler of its own
DiscCaught_Never(e) == FALSE

\* the inner "except Exception" of the nuance_sharing step
DiscCaught(e) == IsException(e.cls)

\* variant: any quoted post counts as a post of the Nuance account
AccountMatches_Any(a) == TRUE

\* quoted_post.account_id == cst.NUANCE_SOCIAL_ACCOUNT_ID
AccountMatches(a) == a = NUANCE_SOCIAL_ACCOUNT_ID

\* variant: a failed lookup counts as a match
AfterLookupFailure_Tagged(ident) == Append(ident, Sentinel)

\* nothing is appended when the lookup or the read of account_id raised
AfterLookupFailure(ident) == ident

\* variant: the list is one object shared by the invocations, so a new
\* invocation starts from what another one has identified
InitialTopics_Shared(lists, p) ==
    LET others == {q \in DOMAIN lists : q # p /\ lists[q] # <<>>} IN
    IF others = {} THEN <<>> ELSE lists[CHOOSE q \in others : TRUE]

\* "identified_topics = []": a new local list in every invocation
InitialTopics(lists, p) == <<>>

\* variant: the new topics are added to those the post had
AssignedTopics_Merged(old, ident) == old \o ident

\* post.topics after "post.topics = identified_topics"
AssignedTopics(old, ident) == ident

\* variant: the handler stores the topics identified before the failure
PostOnError_Partial(po, ident) == [po EXCEPT !.topics = ident]

\* the post the handler puts in the ERROR result: it assigns nothing to it
PostOnError(po, ident) == po

\* variant: a failed request is sent once more before the failure is passed on
QueryRetries_Once(e, calls, queries) == calls <= queries

\* whether LLMService.query or _call_model repeats a request that failed with
\* e: neither has a loop or a handler around the request
QueryRetries(e, calls, queries) == FALSE

\* the top-level handler: an ERROR result with the post as it is; step names
\* the statement that raised e
Handle(p, e, step) ==
    /\ failedAt' = [failedAt EXCEPT ![p] = step]
    /\ raised' = [raised EXCEPT ![p] = e]
    /\ IF IsException(e.cls)
       THEN /\ results' = [results EXCEPT ![p] =
                    Append(@, [status |-> "ERROR",
                               output |-> PostOnError(post[p], identified[p]),
                               reason |-> Reason(e)])]
            /\ pc' = [pc EXCEPT ![p] = "done"]
       ELSE /\ results' = results
            /\ pc' = [pc EXCEPT ![p] = "raised"]
    /\ post' = [post EXCEPT ![p] = PostOnError(@, identified[p])]

\* post.topics = identified_topics; return ACCEPTED
Accept(p, ident) ==
    LET out == [post[p] EXCEPT !.topics = AssignedTopics(@, ident)] IN
    /\ post' = [post EXCEPT ![p] = out]
    /\ results' = [results EXCEPT ![p] =
            Append(@, [status |-> "ACCEPTED", output |-> out,
                       details |-> [topics |-> ident, topic_count |-> Len(ident)]])]
    /\ pc' = [pc EXCEPT ![p] = "done"]

\* the nuance_sharing step up to its await, or the return when it is skipped
AfterLoop(p, ident) ==
    IF NeedsLookup(post[p])
    THEN /\ pc' = [pc EXCEPT ![p] = "disc"]
         /\ lookups' = [lookups EXCEPT ![p] = @ + 1]
         /\ UNCHANGED <<post, results, failedAt, raised>>
    ELSE /\ Accept(p, ident)
         /\ UNCHANGED <<lookups, failedAt, raised>>

\* the loop from the head of iteration i, with ident accumulated so far, up
\* to the next await (get_wallet inside query_llm) or out of the loop
LoopStep(p, m, i, ident) ==
    /\ identified' = [identified EXCEPT ![p] = ident]
    /\ idx' = [idx EXCEPT ![p] = i]
    /\ IF i <= Len(m)
       THEN IF FormatRaises(ItemAt(m, i).template)
            THEN Handle(p, FormatError, "format") /\ UNCHANGED <<llmCalls, asked, lookups>>
            ELSE /\ pc' = [pc EXCEPT ![p] = "wallet"]
                 /\ llmCalls' = [llmCalls EXCEPT ![p] = @ + 1]
                 /\ asked' = [asked EXCEPT ![p] = Append(@, ItemAt(m, i).topic)]
                 /\ UNCHANGED <<post, results, lookups, failedAt, raised>>
       ELSE AfterLoop(p, ident) /\ UNCHANGED <<llmCalls, asked>>

\* --------------------------------------------------------------- actions
\* process is called and suspends in constitution_store.get_topic_prompts()
Process_Start(p) ==
    /\ kind[p] = "tagger" /\ pc[p] = "start"
    /\ pc' = [pc EXCEPT ![p] = "fetch"]
    /\ UNCHANGED <<stv, shared, inputs, giv, tagv, hist>>

\* get_topic_prompts() answers; the loop runs up to its first await
Process_Fetch(p) ==
    /\ pc[p] = "fetch"
    /\ IF store[p].raises
       THEN /\ Handle(p, store[p].exc, "fetch")
            /\ UNCHANGED <<topic_prompts, idx, identified, llmCalls, asked, lookups>>
       ELSE /\ topic_prompts' = [topic_prompts EXCEPT ![p] = store[p].mapping]
            /\ LoopStep(p, store[p].mapping, 1, InitialTopics(identified, p))
    /\ UNCHANGED <<stv, shared, inputs, giv, verdicts, rawResp, quoted, httpCalls, usedModel,
                   cancelledAt>>

\* query_llm: get_wallet() answers; get_instance() is called next
Query_Wallet(p) ==
    /\ pc[p] = "wallet"
    /\ \E out \in WalletOutcomes :
        IF out.raises
        THEN Handle(p, out.exc, "wallet")
        ELSE /\ pc' = [pc EXCEPT ![p] = "gi_enter"]
             /\ UNCHANGED <<post, results, failedAt, raised>>
    /\ UNCHANGED <<stv, shared, inputs, giv, topic_prompts, idx, identified, verdicts,
                   rawResp, quoted, llmCalls, asked, lookups, httpCalls, usedModel, cancelledAt>>

\* get_instance: "async with cls._lock" takes the lock or queues the task
GI_Enter(p) ==
    /\ pc[p] = "gi_enter"
    /\ IF LockFree(lockHolder, waiters)
       THEN /\ lockHolder' = p
            /\ waiters' = waiters
            /\ pc' = [pc EXCEPT ![p] = "gi_locked"]
            /\ waited' = [waited EXCEPT ![p] = FALSE]
       ELSE /\ waiters' = Append(waiters, p)
            /\ lockHolder' = lockHolder
            /\ pc' = [pc EXCEPT ![p] = "gi_wait"]
            /\ waited' = [waited EXCEPT ![p] = TRUE]
    /\ UNCHANGED <<stv, instance, objs, initCount, inputs, mine, got, tagv, hist>>

\* get_instance: the first queued task resumes with the released lock
GI_Wake(p) ==
    /\ pc[p] = "gi_wait"
    /\ lockHolder = None /\ waiters # <<>> /\ Head(waiters) = p
    /\ lockHolder' = p
    /\ waiters' = Tail(waiters)
    /\ pc' = [pc EXCEPT ![p] = "gi_locked"]
    /\ UNCHANGED <<stv, instance, objs, initCount, inputs, giv, tagv, hist>>

\* variant: a call that finds an instance initializes it again
ModelAfterReuse_Reinit(current, a) == ModelNameOf(a)

\* model_name of the existing instance after a call that finds
\* cls._instance set: the call skips _initialize and ignores its arguments
ModelAfterReuse(current, a) == current

\* variant: the lock stays held when _initialize raises
LockAfterRaise_Held(holder) == holder

\* the holder of the lock once an exception has left the "async with" block
LockAfterRaise(holder) == None

\* get_instance: the test of cls._instance and the creation of the object
GI_Check(p) ==
    /\ pc[p] = "gi_locked"
    /\ IF InstanceIsNone(instance)
       THEN /\ objs' = Append(objs, Unset)
            /\ mine' = [mine EXCEPT ![p] = Len(objs) + 1]
            /\ instance' = InstanceAfterNew(instance, Len(objs) + 1)
            /\ pc' = [pc EXCEPT ![p] = "gi_new"]
       ELSE /\ objs' = [objs EXCEPT ![instance] = ModelAfterReuse(@, arg[p])]
            /\ pc' = [pc EXCEPT ![p] = "gi_ret"]
            /\ UNCHANGED <<mine, instance>>
    /\ UNCHANGED <<stv, lockHolder, waiters, initCount, inputs, got, waited, tagv, hist>>

\* get_instance: "await instance._initialize(*args, **kwargs)"; arguments the
\* signature rejects raise TypeError out of the "async with", which releases
GI_Initialize(p) ==
    /\ pc[p] = "gi_new"
    /\ IF arg[p] = BadArgs
       THEN /\ lockHolder' = LockAfterRaise(lockHolder)
            /\ mine' = [mine EXCEPT ![p] = None]
            /\ pc' = [pc EXCEPT ![p] = "raised"]
            /\ UNCHANGED <<objs, initCount>>
       ELSE /\ objs' = [objs EXCEPT ![mine[p]] = ModelNameOf(arg[p])]
            /\ initCount' = initCount + 1
            /\ pc' = [pc EXCEPT ![p] = "gi_inited"]
            /\ UNCHANGED <<lockHolder, mine>>
    /\ UNCHANGED <<stv, instance, waiters, inputs, got, waited, tagv, hist>>

\* get_instance: "cls._instance = instance"
GI_Publish(p) ==
    /\ pc[p] = "gi_inited"
    /\ instance' = mine[p]
    /\ pc' = [pc EXCEPT ![p] = "gi_ret"]
    /\ UNCHANGED <<stv, objs, lockHolder, waiters, initCount, inputs, giv, tagv, hist>>

\* get_instance: "return cls._instance" and the release of the lock; in
\* query_llm, service.query then runs up to the HTTP request
GI_Return(p) ==
    /\ pc[p] = "gi_ret"
    /\ got' = [got EXCEPT ![p] = instance]
    /\ mine' = [mine EXCEPT ![p] = None]
    /\ lockHolder' = None
    /\ IF kind[p] = "direct"
       THEN /\ pc' = [pc EXCEPT ![p] = "done"]
            /\ UNCHANGED <<post, results, usedModel, httpCalls, failedAt, raised>>
       ELSE IF instance = None \/ objs[instance] = Unset
            THEN /\ Handle(p, AttrError, "query")
                 /\ UNCHANGED <<usedModel, httpCalls>>
            ELSE /\ usedModel' = [usedModel EXCEPT ![p] = objs[instance]]
                 /\ httpCalls' = [httpCalls EXCEPT ![p] = @ + 1]
                 /\ pc' = [pc EXCEPT ![p] = "http"]
                 /\ UNCHANGED <<post, results, failedAt, raised>>
    /\ UNCHANGED <<stv, instance, objs, waiters, initCount, inputs, waited, topic_prompts,
                   idx, identified, verdicts, rawResp, quoted, llmCalls, asked, lookups, cancelledAt>>

\* the HTTP request answers: the verdict of this topic, then the loop goes on
Query_Http(p) ==
    /\ pc[p] = "http"
    /\ \E out \in HttpOutcomes(llm) :
        IF out.raises
        THEN IF QueryRetries(out.exc, httpCalls[p], llmCalls[p])
             THEN /\ httpCalls' = [httpCalls EXCEPT ![p] = @ + 1]
                  /\ UNCHANGED <<pc, post, results, failedAt, raised, idx, identified,
                                 verdicts, rawResp, llmCalls, asked, lookups>>
             ELSE /\ Handle(p, out.exc, "http")
                  /\ UNCHANGED <<idx, identified, verdicts, rawResp, llmCalls, asked,
                                 lookups, httpCalls>>
        ELSE LET rel   == is_relevant(out.content)
                 topic == ItemAt(topic_prompts[p], idx[p]).topic
                 ident == IF rel THEN AppendTopic(identified[p], topic) ELSE identified[p]
             IN  /\ rawResp' = [rawResp EXCEPT ![p] = out.content]
                 /\ verdicts' = [verdicts EXCEPT ![p] = Append(@, rel)]
                 /\ LoopStep(p, topic_prompts[p], idx[p] + 1, ident)
                 /\ httpCalls' = httpCalls
    /\ UNCHANGED <<stv, shared, inputs, giv, topic_prompts, quoted, usedModel, cancelledAt>>

\* get_post answers: the sentinel is appended or not, and process returns
Process_Disc(p) ==
    /\ pc[p] = "disc"
    /\ \E ans \in DiscAnswers :
        /\ quoted' = [quoted EXCEPT ![p] = ans]
        /\ LET e == IF ans.raises THEN ans.exc ELSE AttrError IN
           IF ans.raises \/ ans.account_id = Absent
           THEN IF DiscCaught(e)
                THEN /\ identified' = [identified EXCEPT ![p] = AfterLookupFailure(@)]
                     /\ Accept(p, AfterLookupFailure(identified[p]))
                     /\ failedAt' = [failedAt EXCEPT ![p] = "disc"]
                     /\ raised' = [raised EXCEPT ![p] = e]
                ELSE /\ Handle(p, e, "disc")
                     /\ identified' = identified
           ELSE LET ident == IF AccountMatches(ans.account_id)
                             THEN AppendTopic(identified[p], Sentinel)
                             ELSE identified[p]
                IN  /\ identified' = [identified EXCEPT ![p] = ident]
                    /\ Accept(p, ident)
                    /\ UNCHANGED <<failedAt, raised>>
    /\ UNCHANGED <<stv, shared, inputs, giv, topic_prompts, idx, verdicts, rawResp,
                   llmCalls, asked, lookups, httpCalls, usedModel, cancelledAt>>

SuspendedPcs == {"fetch", "wallet", "gi_wait", "http", "disc"}

\* the task is cancelled where it is suspended: CancelledError leaves
\* process and get_instance uncaught
Cancel(p) ==
    /\ pc[p] \in SuspendedPcs
    /\ pc' = [pc EXCEPT ![p] = "cancelled"]
    /\ cancelledAt' = [cancelledAt EXCEPT ![p] = pc[p]]
    /\ waiters' = SelectSeq(waiters, LAMBDA q : q # p)
    /\ UNCHANGED <<stv, instance, objs, lockHolder, initCount, inputs, giv, tagv, failedAt, raised>>

MainInit ==
    /\ instance = None
    /\ objs = <<>>
    /\ lockHolder = None
    /\ waiters = <<>>
    /\ initCount = 0
    /\ mine = [p \in Procs |-> None]
    /\ got = [p \in Procs |-> None]
    /\ waited = [p \in Procs |-> FALSE]
    /\ topic_prompts = [p \in Procs |-> <<>>]
    /\ idx = [p \in Procs |-> 0]
    /\ identified = [p \in Procs |-> <<>>]
    /\ verdicts = [p \in Procs |-> <<>>]
    /\ rawResp = [p \in Procs |-> <<>>]
    /\ quoted = [p \in Procs |-> NoAnswer]
    /\ results = [p \in Procs |-> <<>>]
    /\ llmCalls = [p \in Procs |-> 0]
    /\ lookups = [p \in Procs |-> 0]
    /\ httpCalls = [p \in Procs |-> 0]
    /\ usedModel = [p \in Procs |-> Unset]
    /\ failedAt = [p \in Procs |-> "-"]
    /\ cancelledAt = [p \in Procs |-> "-"]
    /\ asked = [p \in Procs |-> <<>>]
    /\ raised = [p \in Procs |-> NoExc]

StripIdle ==
    /\ st_text = <<>>
    /\ st_once = <<>>
    /\ st_twice = <<>>
    /\ st_pc = "off"

NoStore == [raises |-> FALSE, exc |-> NoExc, mapping |-> <<>>]

\* the inputs of the runs with concurrent callers of get_instance
SmallPosts ==
    {po \in Posts : /\ po.topics = <<"old">>
                    /\ po.extra_data = [is_quote_tweet |-> "True", quoted_status_id |-> "q1"]}
SmallStore ==
    {a \in StoreAnswers :
        /\ a.raises => a.exc.msg = "boom"
        /\ ~a.raises => a.mapping = <<[topic |-> "A", template |-> GoodTemplate]>>}
SmallLlm == {R_true, R_false}

\* the tagger task runs process while the direct tasks call get_instance
Init ==
    /\ StripIdle
    /\ MainInit
    /\ kind = [p \in Procs |-> IF p \in Taggers THEN "tagger" ELSE "direct"]
    /\ pc = [p \in Procs |-> IF p \in Taggers THEN "start" ELSE "gi_enter"]
    /\ \E tp \in [Taggers -> SmallPosts], ts \in [Taggers -> SmallStore],
          da \in [Directs -> Args] :
        /\ post = [p \in Procs |-> IF p \in Taggers THEN tp[p] ELSE DefaultPost]
        /\ store = [p \in Procs |-> IF p \in Taggers THEN ts[p] ELSE NoStore]
        /\ arg = [p \in Procs |-> IF p \in Taggers THEN NoArg ELSE da[p]]
    /\ llm = SmallLlm
    /\ entry = post

\* the steps of a task inside process and query_llm
TaggerStep(p) ==
    \/ Process_Start(p)
    \/ Process_Fetch(p)
    \/ Query_Wallet(p)
    \/ Query_Http(p)
    \/ Process_Disc(p)

\* the steps of a task inside get_instance that need no other task
SingletonStep(p) ==
    \/ GI_Enter(p)
    \/ GI_Check(p)
    \/ GI_Initialize(p)
    \/ GI_Publish(p)
    \/ GI_Return(p)

Next ==
    \E p \in Procs :
        \/ TaggerStep(p)
        \/ SingletonStep(p)
        \/ GI_Wake(p)
        \/ Cancel(p)

Spec == Init /\ [][Next]_vars

\* ------------------------------- one process invocation, every input
InitTag ==
    /\ StripIdle
    /\ MainInit
    /\ kind = [p \in Procs |-> IF p \in Taggers THEN "tagger" ELSE "off"]
    /\ pc = [p \in Procs |-> IF p \in Taggers THEN "start" ELSE "off"]
    /\ \E tp \in [Taggers -> Posts], ts \in [Taggers -> StoreAnswers] :
        /\ post = [p \in Procs |-> IF p \in Taggers THEN tp[p] ELSE DefaultPost]
        /\ store = [p \in Procs |-> IF p \in Taggers THEN ts[p] ELSE NoStore]
    /\ arg = [p \in Procs |-> NoArg]
    /\ llm = Responses
    /\ entry = post

NextTag ==
    \E p \in Taggers :
        \/ TaggerStep(p)
        \/ SingletonStep(p)
        \/ Cancel(p)

SpecTag == InitTag /\ [][NextTag]_vars

\* ------------------------------- two process invocations side by side
ConcTaggers == {1, 2}

InitConc ==
    /\ StripIdle
    /\ MainInit
    /\ kind = [p \in Procs |-> IF p \in ConcTaggers THEN "tagger" ELSE "off"]
    /\ pc = [p \in Procs |-> IF p \in ConcTaggers THEN "start" ELSE "off"]
    /\ \E tp \in [ConcTaggers -> SmallPosts], ts \in [ConcTaggers -> SmallStore] :
        /\ post = [p \in Procs |-> IF p \in ConcTaggers THEN tp[p] ELSE DefaultPost]
        /\ store = [p \in Procs |-> IF p \in ConcTaggers THEN ts[p] ELSE NoStore]
    /\ arg = [p \in Procs |-> NoArg]
    /\ llm = SmallLlm
    /\ entry = post

SpecConc == InitConc /\ [][Next]_vars

\* ------------------------- callers of get_instance under fair scheduling
InitFair ==
    /\ StripIdle
    /\ MainInit
    /\ kind = [p \in Procs |-> "direct"]
    /\ pc = [p \in Procs |-> "gi_enter"]
    /\ post = [p \in Procs |-> DefaultPost]
    /\ store = [p \in Procs |-> NoStore]
    /\ arg \in [Procs -> Args]
    /\ llm = {}
    /\ entry = post

NextFair ==
    \E p \in Procs :
        \/ SingletonStep(p)
        \/ GI_Wake(p)
        \/ Cancel(p)

\* the event loop runs every task that is ready: a task that can take its
\* next step inside get_instance takes it; a cancellation may never come
Fairness == \A p \in Procs : WF_vars(SingletonStep(p) \/ GI_Wake(p))

SpecFair == InitFair /\ [][NextFair]_vars /\ Fairness

\* ------------------------------------------- strip_thinking on its own
InitStrip ==
    /\ StripInit
    /\ MainInit
    /\ post = [p \in Procs |-> DefaultPost]
    /\ store = [p \in Procs |-> NoStore]
    /\ arg = [p \in Procs |-> NoArg]
    /\ kind = [p \in Procs |-> "off"]
    /\ pc = [p \in Procs |-> "off"]
    /\ llm = {}
    /\ entry = post

NextStrip ==
    \/ StripOnce /\ UNCHANGED <<shared, inputs, pc, giv, tagv, hist>>
    \/ StripTwice /\ UNCHANGED <<shared, inputs, pc, giv, tagv, hist>>

SpecStrip == InitStrip /\ [][NextStrip]_vars

\* ================================================================ claims
TaggerProcs == {p \in Procs : kind[p] = "tagger"}

Returned(p) == pc[p] = "done" /\ kind[p] = "tagger"
Status(p) == results[p][1].status
IsError(p) == Returned(p) /\ Status(p) = "ERROR"
IsAccepted(p) == Returned(p) /\ Status(p) = "ACCEPTED"

\* the keys of mapping m whose verdict in v is TRUE, in the order of m
RECURSIVE Matched(_, _)
Matched(m, v) ==
    IF m = <<>> \/ v = <<>> THEN <<>>
    ELSE (IF Head(v) THEN <<Head(m).topic>> ELSE <<>>) \o Matched(Tail(m), Tail(v))

\* the quote check matched: get_post answered a post of the Nuance account
QuoteMatched(p) == ~quoted[p].raises /\ quoted[p].account_id = NUANCE_SOCIAL_ACCOUNT_ID

\* the lookup failed: get_post raised or its answer has no account_id
LookupFailed(p) == quoted[p].raises \/ quoted[p].account_id = Absent

\* the statements inside the per-topic loop that can raise
LoopSteps == {"format", "wallet", "query", "http"}

\* ---------------------------------------------------------------- C1
\* C1: all callers of get_instance receive the same instance, the body of
\* _initialize runs exactly once (never twice, and once as soon as a caller
\* has its instance), and a caller that waited for the lock returns the
\* published, initialized instance.
C1_SingleInstance ==
    /\ \A p, q \in Procs : got[p] # None /\ got[q] # None => got[p] = got[q]
    /\ initCount <= 1
    /\ (\E p \in Procs : got[p] # None) => initCount = 1
    /\ \A p \in Procs :
        got[p] # None => /\ got[p] = instance
                         /\ objs[got[p]] # Unset
                         /\ Len(SelectSeq(objs, LAMBDA o : o # Unset)) = 1

C1_Witness ==
    \E p, q \in Procs :
        /\ p # q
        /\ waited[p] /\ pc[p] = "done" /\ got[p] # None
        /\ got[q] = got[p]
        /\ initCount = 1

\* ---------------------------------------------------------------- C2
\* C2 as stated: process returns ERROR only for exceptions raised outside
\* the per-topic loop.
C2_ErrorOnlyOutsideLoop ==
    \A p \in TaggerProcs : IsError(p) => failedAt[p] \notin LoopSteps

\* C2 amended: a call that raises inside the per-topic loop (format,
\* get_wallet, the query) ends process with ERROR, as does a failing fetch of
\* the mapping; a failure of the quoted-post lookup never does.
C2_ErrorIffFetchOrLoop ==
    \A p \in TaggerProcs :
        /\ failedAt[p] \in LoopSteps \cup {"fetch"} => IsError(p)
        /\ IsError(p) => failedAt[p] \in LoopSteps \cup {"fetch"}
        /\ failedAt[p] = "disc" => IsAccepted(p)

C2_Witness ==
    \E p \in TaggerProcs :
        /\ IsError(p) /\ failedAt[p] = "http"
        /\ Len(verdicts[p]) = 1 /\ Len(topic_prompts[p]) = 2

\* ---------------------------------------------------------------- C3
\* C3: no exception of a collaborator leaves process; an invocation that has
\* ended by a return has returned exactly one result, ACCEPTED or ERROR, and
\* one that has not returned has produced none.
C3_AlwaysAResult ==
    \A p \in TaggerProcs :
        /\ pc[p] # "raised"
        /\ pc[p] = "done" => Len(results[p]) = 1 /\ Status(p) \in {"ACCEPTED", "ERROR"}
        /\ pc[p] # "done" => results[p] = <<>>
        /\ failedAt[p] # "-" => pc[p] = "done"

C3_Witness ==
    \E p \in TaggerProcs :
        IsError(p) /\ failedAt[p] = "wallet" /\ results[p][1].reason[2] = "boom"

\* ---------------------------------------------------------------- C4
\* C4: when the lookup of the quoted post raises or answers without an
\* account id, process returns ACCEPTED and the post's topics are the
\* topics the loop matched, in mapping order, with no sentinel appended.
C4_LookupFailureIsolated ==
    \A p \in TaggerProcs :
        LookupFailed(p) =>
            /\ IsAccepted(p)
            /\ post[p].topics = Matched(topic_prompts[p], verdicts[p])
            /\ results[p][1].output.topics = Matched(topic_prompts[p], verdicts[p])

C4_Witness ==
    \E p \in TaggerProcs :
        /\ quoted[p].raises /\ IsAccepted(p)
        /\ Len(post[p].topics) = 2

\* ---------------------------------------------------------------- C5
\* the answers of Responses that read "true" once the think section, the
\* surrounding whitespace and the letter case are removed
ExpectedRelevant == {R_true, R_True, R_TRUE, R_think_true, R_ff_true, R_vt_true,
                     R_sep_true, R_nbsp_true, R_ogham_true}

\* C5: until the quote check answers, the topic of the last completed
\* iteration is the last identified topic iff the answer it received is
\* one that reads "true"; every other answer adds nothing, and no answer
\* makes the query step fail.
C5_ExactTrue ==
    \A p \in TaggerProcs :
        (verdicts[p] # <<>> /\ quoted[p] = NoAnswer) =>
            LET k == Len(verdicts[p])
                topic == topic_prompts[p][k].topic
                added == identified[p] # <<>> /\ identified[p][Len(identified[p])] = topic
            IN  /\ added <=> rawResp[p] \in ExpectedRelevant
                /\ verdicts[p][k] <=> rawResp[p] \in ExpectedRelevant
                /\ Len(identified[p]) = Len(SelectSeq(verdicts[p], LAMBDA b : b))
                /\ Len(verdicts[p]) <= httpCalls[p]

C5_Witness ==
    \E p \in TaggerProcs :
        /\ rawResp[p] = R_think_true /\ identified[p] = <<"B">>
        /\ Len(verdicts[p]) = 2 /\ ~verdicts[p][1]

\* ---------------------------------------------------------------- C6
\* C6: on ACCEPTED the post's topics are the matched keys in mapping order,
\* followed by the sentinel exactly when the quote check matched.
C6_TopicOrder ==
    \A p \in TaggerProcs :
        IsAccepted(p) =>
            post[p].topics =
                Matched(topic_prompts[p], verdicts[p])
                \o (IF QuoteMatched(p) THEN <<Sentinel>> ELSE <<>>)

C6_Witness ==
    \E p \in TaggerProcs :
        IsAccepted(p) /\ post[p].topics = <<"B", "A", Sentinel>>

\* ---------------------------------------------------------------- C7
\* C7: when the fetch of the mapping raises, process issues no LLM query,
\* no HTTP request and no lookup, leaves the post as it was, and returns one
\* ERROR result whose reason is not empty.
C7_FetchFailure ==
    \A p \in TaggerProcs :
        store[p].raises =>
            /\ llmCalls[p] = 0 /\ httpCalls[p] = 0 /\ lookups[p] = 0
            /\ post[p] = entry[p]
            /\ pc[p] \in {"start", "fetch", "cancelled", "done"}
            /\ pc[p] = "done" =>
                /\ Len(results[p]) = 1
                /\ Status(p) = "ERROR"
                /\ results[p][1].output = entry[p]
                /\ \E i \in 1..Len(results[p][1].reason) : results[p][1].reason[i] # ""

C7_Witness ==
    \E p \in TaggerProcs :
        /\ store[p].raises /\ store[p].exc.msg = "" /\ IsError(p)
        /\ entry[p].topics = <<"old">>

\* ---------------------------------------------------------------- C8
\* C8: strip_thinking is idempotent: applying it to its own result changes
\* nothing.
C8_StripIdempotent == st_pc = "twice" => st_twice = st_once

\* ---------------------------------------------------------------- C9
\* C9: once LLMService._instance holds an instance, no step clears it or
\* replaces it.
C9_NeverReset == [][instance # None => instance' = instance]_vars

C9_Witness ==
    /\ instance # None
    /\ \E p \in TaggerProcs : httpCalls[p] >= 1 /\ got[p] = instance
    /\ \E q \in Procs : kind[q] = "direct" /\ pc[q] = "done" /\ got[q] = instance

\* ---------------------------------------------------------------- C10
\* C10: whatever task is cancelled at whatever suspension point,
\* LLMService._instance is None or an instance whose model_name is set, and
\* so is every value get_instance has returned.
C10_NeverHalfInitialized ==
    /\ instance # None => objs[instance] # Unset
    /\ \A p \in Procs : got[p] # None => objs[got[p]] # Unset

C10_Witness ==
    \E p, q \in Procs :
        /\ cancelledAt[p] = "gi_wait"
        /\ pc[q] = "gi_ret" /\ mine[q] # None
        /\ instance = mine[q]

\* ---------------------------------------------------------------- C11
\* C11: the queries of one invocation are issued in the order of the
\* mapping, the k-th query asking about the k-th key, and a query is issued
\* only when every earlier one has delivered its verdict: at most one query,
\* and at most one HTTP request, is outstanding.
C11_OneQueryAtATime ==
    \A p \in TaggerProcs :
        /\ llmCalls[p] = Len(asked[p])
        /\ Len(asked[p]) <= Len(topic_prompts[p])
        /\ \A k \in 1..Len(asked[p]) :
                k <= Len(topic_prompts[p]) => asked[p][k] = topic_prompts[p][k].topic
        /\ Len(verdicts[p]) <= llmCalls[p]
        /\ llmCalls[p] <= Len(verdicts[p]) + 1
        /\ Len(verdicts[p]) <= httpCalls[p]
        /\ httpCalls[p] <= llmCalls[p]

C11_Witness ==
    \E p \in TaggerProcs :
        /\ pc[p] = "http" /\ llmCalls[p] = 2 /\ Len(verdicts[p]) = 1
        /\ asked[p] = <<"B", "A">>

\* ---------------------------------------------------------------- C13
\* C13: with an empty mapping process issues no LLM query and no HTTP
\* request and returns ACCEPTED; the topics are empty, or the sentinel alone
\* when the quote check matched.
C13_EmptyMapping ==
    \A p \in TaggerProcs :
        (~store[p].raises /\ store[p].mapping = <<>>) =>
            /\ llmCalls[p] = 0 /\ httpCalls[p] = 0
            /\ pc[p] \in {"start", "fetch", "disc", "cancelled", "done"}
            /\ pc[p] = "done" =>
                /\ IsAccepted(p)
                /\ post[p].topics = IF QuoteMatched(p) THEN <<Sentinel>> ELSE <<>>

C13_Witness ==
    \E p \in TaggerProcs :
        /\ ~store[p].raises /\ store[p].mapping = <<>>
        /\ IsAccepted(p) /\ lookups[p] = 1 /\ ~QuoteMatched(p)
        /\ entry[p].topics = <<"old">> /\ post[p].topics = <<>>

\* ---------------------------------------------------------------- C14
\* the failures of the HTTP retry client and of the read of its answer
HttpFailures == Failures \cup {BodyError}

\* C14: a query sends one HTTP request; when the request fails the failure
\* reaches the caller as it was raised and the query delivers no verdict.
C14_NoRetryInQuery ==
    \A p \in TaggerProcs :
        /\ httpCalls[p] <= llmCalls[p]
        /\ pc[p] = "http" => httpCalls[p] = llmCalls[p] /\ Len(verdicts[p]) = httpCalls[p] - 1
        /\ failedAt[p] = "http" =>
            /\ IsError(p)
            /\ raised[p] \in HttpFailures
            /\ results[p][1].reason = <<"Error tagging topics: ", raised[p].msg>>
            /\ httpCalls[p] = llmCalls[p]
            /\ Len(verdicts[p]) = httpCalls[p] - 1

C14_Witness ==
    \E p \in TaggerProcs :
        failedAt[p] = "http" /\ raised[p] = BodyError /\ httpCalls[p] = 2

\* ---------------------------------------------------------------- C15
\* C15: on ACCEPTED the details report the topics of the returned post and
\* their number, and none of the topics the post had before remains unless
\* it was identified again.
C15_DetailsAgree ==
    \A p \in TaggerProcs :
        IsAccepted(p) =>
            LET r == results[p][1] IN
            /\ r.details.topics = r.output.topics
            /\ r.details.topic_count = Len(r.output.topics)
            /\ r.output = post[p]
            /\ \A i \in 1..Len(post[p].topics) : post[p].topics[i] \in TopicNames

C15_Witness ==
    \E p \in TaggerProcs :
        /\ IsAccepted(p) /\ entry[p].topics = <<"old">>
        /\ results[p][1].details.topic_count = 2
        /\ results[p][1].details.topics = <<"A", Sentinel>>

\* ---------------------------------------------------------------- C16
\* the post is a quote tweet on Twitter with a non-empty quoted id
QuotePost(po) ==
    /\ po.platform_type = "TWITTER"
    /\ po.extra_data.is_quote_tweet = "True"
    /\ po.extra_data.quoted_status_id = "q1"

\* C16: get_post is called, at most once, only for a Twitter post marked as
\* a quote tweet with a non-empty quoted id; for every other post there is
\* no lookup and the topics are those of the loop.
C16_LookupOnlyForQuotes ==
    \A p \in TaggerProcs :
        /\ lookups[p] <= 1
        /\ lookups[p] = 1 => QuotePost(entry[p])
        /\ quoted[p] # NoAnswer => QuotePost(entry[p]) /\ lookups[p] = 1
        /\ ~QuotePost(entry[p]) =>
            /\ pc[p] # "disc"
            /\ IsAccepted(p) => post[p].topics = Matched(topic_prompts[p], verdicts[p])
        /\ (QuotePost(entry[p]) /\ IsAccepted(p)) => lookups[p] = 1

C16_Witness ==
    \E p \in TaggerProcs :
        /\ entry[p].platform_type = "TWITTER"
        /\ entry[p].extra_data = [is_quote_tweet |-> "True", quoted_status_id |-> ""]
        /\ IsAccepted(p) /\ lookups[p] = 0 /\ post[p].topics = <<"A">>

\* ---------------------------------------------------------------- C17
\* C17: the post is assigned only by the step that returns ACCEPTED: until
\* process returns, and on every ERROR result, the post and the output of
\* the result are the post as it was on entry.
C17_ErrorLeavesPost ==
    \A p \in TaggerProcs :
        /\ ~IsAccepted(p) => post[p] = entry[p]
        /\ IsError(p) => results[p][1].output = entry[p]

C17_Witness ==
    \E p \in TaggerProcs :
        /\ IsError(p) /\ failedAt[p] = "format"
        /\ identified[p] = <<"A">> /\ post[p].topics = <<"old">>

\* ---------------------------------------------------------------- C18
\* C18: the topics assigned on ACCEPTED contain no name twice.
C18_NoDuplicateTopic ==
    \A p \in TaggerProcs :
        IsAccepted(p) =>
            \A i, j \in 1..Len(post[p].topics) :
                post[p].topics[i] = post[p].topics[j] => i = j

\* ---------------------------------------------------------------- C12
\* the result of a lone invocation with the answers p received
AloneTopics(p) ==
    Matched(store[p].mapping, verdicts[p])
    \o (IF QuoteMatched(p) THEN <<Sentinel>> ELSE <<>>)

\* C12: among concurrent invocations the status and the topics of each are
\* those of a lone run with the answers it received from its own
\* collaborators: ACCEPTED with the topics its own verdicts select, ERROR
\* exactly for a failure of its own fetch, substitution, wallet or request.
\* From the shared singleton it gets the one initialized instance.
C12_InvocationsIndependent ==
    \A p \in TaggerProcs :
        /\ failedAt[p] \in {"-", "fetch", "format", "wallet", "http", "disc"}
        /\ usedModel[p] \in {Unset, DefaultModel}
        /\ got[p] \in {None, instance}
        /\ Len(identified[p]) <= Len(verdicts[p]) + 1
        /\ pc[p] = "done" =>
            /\ Len(results[p]) = 1
            /\ IsError(p) <=> failedAt[p] \in {"fetch", "format", "wallet", "http"}
            /\ store[p].raises <=> failedAt[p] = "fetch"
            /\ IsError(p) =>
                /\ post[p] = entry[p]
                /\ results[p][1].reason = <<"Error tagging topics: ", raised[p].msg>>
            /\ IsAccepted(p) =>
                /\ Len(verdicts[p]) = Len(store[p].mapping)
                /\ post[p].topics = AloneTopics(p)

C12_Witness ==
    \E p, q \in TaggerProcs :
        /\ p # q /\ waited[q] /\ got[p] = got[q] /\ got[p] # None
        /\ IsAccepted(p) /\ post[p].topics = <<"A", Sentinel>>
        /\ IsAccepted(q) /\ post[q].topics = <<>>
        /\ store[p] = store[q] /\ entry[p] = entry[q]

\* ---------------------------------------------------------------- C19
\* the singleton is published
Ready == instance # None

\* C19: once the singleton is published no step replaces it or changes its
\* model_name, whatever argument a later get_instance call carries; such a
\* call returns the published instance, and a query that omits the model
\* uses the model_name set by the first initialization.
C19_FirstArgumentsOnly ==
    [][ Ready =>
            /\ instance' = instance
            /\ objs'[instance] = objs[instance]
            /\ objs[instance] \in {DefaultModel, "m1"}
            /\ \A p \in Procs :
                /\ got'[p] # got[p] => got'[p] = instance
                /\ usedModel'[p] # usedModel[p] => usedModel'[p] = objs[instance]
      ]_vars

C19_Witness ==
    \E p \in Procs, t \in TaggerProcs :
        /\ kind[p] = "direct" /\ arg[p] = "m1" /\ pc[p] = "done"
        /\ Ready /\ got[p] = instance /\ objs[instance] = DefaultModel
        /\ usedModel[t] = DefaultModel /\ pc[t] = "done"
        /\ \E q \in Procs : kind[q] = "direct" /\ arg[q] = BadArgs /\ pc[q] = "done"

\* ---------------------------------------------------------------- C20
GIPcs == {"gi_enter", "gi_wait", "gi_locked", "gi_new", "gi_inited", "gi_ret"}

\* C20: a task inside get_instance leaves it: it returns the instance,
\* raises, or is cancelled; none stays behind the lock.
C20_EveryCallerLeaves ==
    \A p \in Procs : (pc[p] \in GIPcs) ~> (pc[p] \notin GIPcs)

C20_Witness ==
    \E p, q, c \in Procs :
        /\ pc[q] = "raised"
        /\ pc[c] = "cancelled" /\ cancelledAt[c] = "gi_wait"
        /\ pc[p] = "done" /\ waited[p] /\ got[p] = instance /\ Ready
        /\ lockHolder = None /\ waiters = <<>>

====
